---------------------------- MODULE Spec2Model ----------------------------
(***************************************************************************)
(* A model of the marker pose pipeline (aruco.py: detect_aruco,            *)
(* PoseSelectors, select_aruco_poses) and of the plane frame construction  *)
(* (estimate_plane.py: project_to_plane, estimate_plane).                  *)
(*                                                                         *)
(* numpy arrays are records [isNone, shape, data]: the shape is kept       *)
(* beside the data because np.empty((0, ...)) arrays have a shape and no   *)
(* data.  Python's None is the record NpNone.  Indices stored in the state *)
(* are numpy's (0-based); sequences are TLA+'s (1-based).                  *)
(*                                                                         *)
(* The external services (cv2.aruco.detectMarkers, cv2.solvePnP,           *)
(* cv2.solvePnPGeneric) are opaque: the detector's output is an input of   *)
(* DetectAruco drawn from bounded sets, and the solver is a fixed function *)
(* of the corner quad and the marker size (SolvePnPGeneric below).         *)
(***************************************************************************)
EXTENDS Integers, Sequences, FiniteSets, TLC

VARIABLES
    pc,               \* position in the marker pipeline
    call,             \* the arguments of detect_aruco and the detector's output
    arucos,           \* the ArucoList returned by detect_aruco
    err,              \* the exception raised ("" when none)
    selector,         \* the selector passed to select_aruco_poses
    selected,         \* the list `selected` of select_aruco_poses (0-based)
    arucos_selected,  \* the ArucoList returned by select_aruco_poses
    ppc,              \* position in the plane pipeline
    points,           \* the loaded point cloud (sequence of <<x, y, z>>)
    fit               \* the outcome of estimate_plane

vars == <<pc, call, arucos, err, selector, selected, arucos_selected,
          ppc, points, fit>>

arucoVars == <<pc, call, arucos, err, selector, selected, arucos_selected>>
planeVars == <<ppc, points, fit>>

(***************************************************************************)
(* Bounds of the model.                                                    *)
(***************************************************************************)
\* Largest number of markers the detector reports in one image.
MaxN == 2

\* Number of points of a loaded point cloud.
NPts == 4

\* Marker identifiers, corner quads (opaque tokens), marker sizes and
\* rejected-candidate counts the detector and the caller may produce.
IdSet == {1, 2, 3}
QuadSet == {1, 2, 3}
SizeSet == {1, 2}
RejectedCounts == {0, 1}

\* Largest slope |a|, |b| of the planes z = a x + b y clouds are sampled on.
MaxSlope == 1

(***************************************************************************)
(* numpy arrays.                                                           *)
(***************************************************************************)
NpNone == [isNone |-> TRUE, shape |-> <<>>, data |-> <<>>]

Np(shape, data) == [isNone |-> FALSE, shape |-> shape, data |-> data]

\* np.empty(shape) with a zero first dimension.
NpEmpty(shape) == Np(shape, <<>>)

\* np.array(list) of equally shaped arrays.
NpArray(list, elemShape) == Np(<<Len(list)>> \o elemShape, list)

Permutations1(n) == {p \in [1..n -> 1..n] : \A i, j \in 1..n : i # j => p[i] # p[j]}

(***************************************************************************)
(* ArucoList                                                               *)
(***************************************************************************)
\* ArucoList.reset
ArucoListReset ==
    [n |-> -1, corners |-> NpNone, ids |-> NpNone,
     n_rejected |-> -1, rejected |-> NpNone,
     aruco_sizes |-> NpNone, n_poses |-> -1,
     rvecs |-> NpNone, tvecs |-> NpNone, reprojection_errors |-> NpNone]

(***************************************************************************)
(* cv2.Rodrigues on rotation vectors whose angle is a multiple of pi/2     *)
(* about a coordinate axis.  A rotation vector <<x, y, z>> is in units of  *)
(* pi/2: <<1, 0, 0>> is a quarter turn about X.                            *)
(***************************************************************************)
Abs(x) == IF x < 0 THEN -x ELSE x

Sgn(x) == IF x < 0 THEN -1 ELSE IF x > 0 THEN 1 ELSE 0

SinQ(k) == <<0, 1, 0, -1>>[(k % 4) + 1]

CosQ(k) == <<1, 0, -1, 0>>[(k % 4) + 1]

Identity3 == <<<<1, 0, 0>>, <<0, 1, 0>>, <<0, 0, 1>>>>

MatMul(A, B) ==
    [i \in 1..3 |-> [j \in 1..3 |->
        A[i][1] * B[1][j] + A[i][2] * B[2][j] + A[i][3] * B[3][j]]]

MatVec(A, v) ==
    [i \in 1..3 |-> A[i][1] * v[1] + A[i][2] * v[2] + A[i][3] * v[3]]

\* R = I + sin(theta) K + (1 - cos(theta)) K^2, K the cross-product matrix
\* of the unit axis.
Rodrigues(rvec) ==
    LET k == Abs(rvec[1]) + Abs(rvec[2]) + Abs(rvec[3])
        u == <<Sgn(rvec[1]), Sgn(rvec[2]), Sgn(rvec[3])>>
        K == <<<<0, -u[3], u[2]>>, <<u[3], 0, -u[1]>>, <<-u[2], u[1], 0>>>>
        K2 == MatMul(K, K)
    IN  [i \in 1..3 |-> [j \in 1..3 |->
            Identity3[i][j] + SinQ(k) * K[i][j] + (1 - CosQ(k)) * K2[i][j]]]

(***************************************************************************)
(* The external Perspective-n-Point solver.  For a corner quad it has two  *)
(* candidate solutions <<rvec, reprojection error>>; the translation       *)
(* records the quad and the marker size it was solved from.                *)
(***************************************************************************)
RotUp == <<1, 0, 0>>       \* marker Z axis toward -Y
RotDown == <<-1, 0, 0>>    \* marker Z axis toward +Y
RotNone == <<0, 0, 0>>     \* marker Z axis along camera Z
RotSide == <<0, 1, 0>>     \* marker Z axis toward +X

Candidates(quad) ==
    CASE quad % 3 = 1 -> <<[rvec |-> RotUp, e |-> 1], [rvec |-> RotDown, e |-> 2]>>
      [] quad % 3 = 2 -> <<[rvec |-> RotDown, e |-> 1], [rvec |-> RotUp, e |-> 3]>>
      [] OTHER        -> <<[rvec |-> RotNone, e |-> 2], [rvec |-> RotSide, e |-> 2]>>

\* cv2.solvePnPGeneric(obj, corners[i], K, D, flags=SOLVEPNP_IPPE_SQUARE):
\* the poses after the squeeze, rvec and tvec of shape (2, 3), errors (2,).
SolvePnPGeneric(quad, size) ==
    [rvec |-> [j \in 1..2 |-> Candidates(quad)[j].rvec],
     tvec |-> [j \in 1..2 |-> <<quad, j - 1, size>>],
     reprojection_error |-> [j \in 1..2 |-> Candidates(quad)[j].e]]

\* cv2.solvePnP(...) after swapaxes: one pose, shapes (1, 3); the
\* reprojection error is the constant -1.
SolvePnP(quad, size) ==
    [rvec |-> <<Candidates(quad)[1].rvec>>,
     tvec |-> <<<<quad, 0, size>>>>,
     reprojection_error |-> <<-1>>]


(***************************************************************************)
(* PoseSelectors                                                           *)
(***************************************************************************)
\* numpy argmax / argmin of a 1-d array: a scan that keeps the first index
\* (0-based) of an extreme entry.
RECURSIVE ArgMaxFrom(_, _, _)
ArgMaxFrom(scores, i, m) ==
    IF i > Len(scores) THEN m
    ELSE ArgMaxFrom(scores, i + 1, IF scores[i] > scores[m] THEN i ELSE m)

ArgMax(scores) == ArgMaxFrom(scores, 2, 1) - 1

RECURSIVE ArgMinFrom(_, _, _)
ArgMinFrom(scores, i, m) ==
    IF i > Len(scores) THEN m
    ELSE ArgMinFrom(scores, i + 1, IF scores[i] < scores[m] THEN i ELSE m)

ArgMin(scores) == ArgMinFrom(scores, 2, 1) - 1

\* A score read from the transposed entry, numpy R[2][1].
ZAxisUpScoreTransposed(R) == -R[3][2]

\* get_rotation_matrix_score of Z_axis_up: -R[:, 2][1], minus the Y
\* component of the marker's Z axis (numpy row 1, column 2).
ZAxisUpScore(R) == -R[2][3]

\* PoseSelectors._select_by_rotation_matrix with Z_axis_up's score.
Z_axis_up(rvec, tvec, reprojection_error) ==
    LET scores == [i \in DOMAIN rvec |-> ZAxisUpScore(Rodrigues(rvec[i]))]
    IN  ArgMax(scores)

best(rvec, tvec, reprojection_error) == ArgMin(reprojection_error)

worst(rvec, tvec, reprojection_error) == ArgMax(reprojection_error)

SelectorNames == {"Z_axis_up", "best", "worst", "custom"}

\* The call selector(rvecs[i], tvecs[i], reprojection_errors[i]) for marker
\* i.  A "custom" selector is a caller's function; sel.choice[i] is the
\* index it returns for marker i.
ApplySelector(sel, i, rvec, tvec, reprojection_error) ==
    CASE sel.name = "Z_axis_up" -> Z_axis_up(rvec, tvec, reprojection_error)
      [] sel.name = "best"      -> best(rvec, tvec, reprojection_error)
      [] sel.name = "worst"     -> worst(rvec, tvec, reprojection_error)
      [] OTHER                  -> sel.choice[i]

(***************************************************************************)
(* detect_aruco                                                            *)
(***************************************************************************)
NoSizes == [kind |-> "None", val |-> <<>>]

\* np.argsort(ids, axis=0): an index array that sorts ids.  The default
\* sort is not stable, so equal ids may come in either order.
ArgSorts(ids) ==
    {ind \in Permutations1(Len(ids)) :
        \A i, j \in 1..Len(ids) : i < j => ids[ind[i]] <= ids[ind[j]]}

\* np.take_along_axis(a, ind, axis=0) of the per-marker arrays.
TakeAlongAxis0(a, ind) == [i \in 1..Len(a) |-> a[ind[i]]]

\* Line 100: ids = np.take_along_axis(ids, ind, axis=0)
SortIds(ids0, ind) == TakeAlongAxis0(ids0, ind)

\* A sort that leaves the corners in the detector's order.
SortCornersUnpermuted(corners0, ind) == corners0

\* Line 101: corners = np.take_along_axis(corners, expand_dims(ind), axis=0)
SortCorners(corners0, ind) == TakeAlongAxis0(corners0, ind)

\* Lines 105-108: a list or tuple becomes an array; a scalar is repeated n
\* times.  A list of one-element lists becomes a 2-d array.
SizesArray(aruco_sizes, n) ==
    CASE aruco_sizes.kind = "list" ->
            Np(<<Len(aruco_sizes.val)>>, aruco_sizes.val)
      [] aruco_sizes.kind = "nested" ->
            Np(<<Len(aruco_sizes.val), 1>>,
               [i \in DOMAIN aruco_sizes.val |-> <<aruco_sizes.val[i]>>])
      [] OTHER ->
            Np(<<n>>, [i \in 1..n |-> aruco_sizes.val[1]])

\* Lines 116-159: one solve per marker, from corners[i] and aruco_sizes[i].
EstimatePose(corner, aruco_size, use_generic) ==
    IF ~use_generic THEN SolvePnP(corner, aruco_size)
    ELSE SolvePnPGeneric(corner, aruco_size)

Raise(e) == [err |-> e, value |-> ArucoListReset]

Return(a) == [err |-> "", value |-> a]

detect_aruco(corners0, ids0, n_rejected, K, D, aruco_sizes, use_generic, ind) ==
    LET n == Len(corners0)
        n_poses0 == IF ~use_generic THEN 1 ELSE 2
        rejected == IF n_rejected # 0 THEN Np(<<n_rejected, 1, 4, 2>>, <<>>)
                    ELSE NpEmpty(<<0, 1, 4, 2>>)
        ids == SortIds(ids0, ind)
        corners == SortCorners(corners0, ind)
        sizes == SizesArray(aruco_sizes, n)
        pose == [i \in 1..n |-> EstimatePose(corners[i], sizes.data[i], use_generic)]
    IN
    IF n # 0 THEN
        IF K # "None" /\ D # "None" /\ aruco_sizes.kind # "None" THEN
            IF Len(sizes.shape) # 1 THEN Raise("RuntimeError: multiple sizes")
            ELSE IF sizes.shape # <<n>> THEN Raise("RuntimeError: size count")
            ELSE Return(
                [n |-> n,
                 corners |-> Np(<<n, 1, 4, 2>>, corners),
                 ids |-> Np(<<n, 1>>, ids),
                 n_rejected |-> n_rejected, rejected |-> rejected,
                 aruco_sizes |-> sizes,
                 n_poses |-> n_poses0,
                 rvecs |-> NpArray([i \in 1..n |-> pose[i].rvec], <<n_poses0, 3>>),
                 tvecs |-> NpArray([i \in 1..n |-> pose[i].tvec], <<n_poses0, 3>>),
                 reprojection_errors |->
                     NpArray([i \in 1..n |-> pose[i].reprojection_error],
                             <<n_poses0>>)])
        ELSE Return(
                [n |-> n,
                 corners |-> Np(<<n, 1, 4, 2>>, corners),
                 ids |-> Np(<<n, 1>>, ids),
                 n_rejected |-> n_rejected, rejected |-> rejected,
                 aruco_sizes |-> NpNone,
                 n_poses |-> 0,
                 rvecs |-> NpNone, tvecs |-> NpNone,
                 reprojection_errors |-> NpNone])
    ELSE Return(
            [n |-> n,
             corners |-> NpEmpty(<<0, 1, 4, 2>>),
             ids |-> NpEmpty(<<0, 1>>),
             n_rejected |-> n_rejected, rejected |-> rejected,
             aruco_sizes |-> NpEmpty(<<0>>),
             n_poses |-> n_poses0,
             rvecs |-> NpEmpty(<<0, n_poses0, 3>>),
             tvecs |-> NpEmpty(<<0, n_poses0, 3>>),
             reprojection_errors |-> NpEmpty(<<0, n_poses0>>)])

(***************************************************************************)
(* select_aruco_poses                                                      *)
(***************************************************************************)
\* A slice that takes the first marker's index for every marker.
TakeAlongAxis1First(a, sel) ==
    Np(<<a.shape[1], 1>> \o SubSeq(a.shape, 3, Len(a.shape)),
       [i \in 1..Len(a.data) |-> <<a.data[i][sel[1] + 1]>>])

\* np.take_along_axis(a, selected, axis=1) with selected of shape (n, 1) or
\* (n, 1, 1): entry i of the result holds a[i][selected[i]].
TakeAlongAxis1(a, sel) ==
    Np(<<a.shape[1], 1>> \o SubSeq(a.shape, 3, Len(a.shape)),
       [i \in 1..Len(a.data) |-> <<a.data[i][sel[i] + 1]>>])

select_aruco_poses(a, sel) ==
    LET n == a.n
        sl == [i \in 1..n |->
                 ApplySelector(sel, i, a.rvecs.data[i], a.tvecs.data[i],
                               a.reprojection_errors.data[i])]
    IN
    IF n = 0 THEN
        [err |-> "", selected |-> <<>>,
         value |-> [a EXCEPT !.n_poses = 1,
                             !.rvecs = NpEmpty(<<0, 1, 3>>),
                             !.tvecs = NpEmpty(<<0, 1, 3>>),
                             !.reprojection_errors = NpEmpty(<<0, 1, 3>>)]]
    ELSE IF a.rvecs.isNone THEN
        \* rvecs[i] with rvecs None
        [err |-> "TypeError", selected |-> <<>>, value |-> ArucoListReset]
    ELSE
        [err |-> "", selected |-> sl,
         value |-> [a EXCEPT !.n_poses = 1,
                             !.rvecs = TakeAlongAxis1(a.rvecs, sl),
                             !.tvecs = TakeAlongAxis1(a.tvecs, sl),
                             !.reprojection_errors =
                                 TakeAlongAxis1(a.reprojection_errors, sl)]]

(***************************************************************************)
(* The marker pipeline: one image is detected, then its poses selected.    *)
(***************************************************************************)
NoCall ==
    [corners |-> <<>>, ids |-> <<>>, n_rejected |-> 0, K |-> "None", D |-> "None",
     aruco_sizes |-> NoSizes, use_generic |-> FALSE]

NoSelector == [name |-> "", choice |-> <<>>]

\* The aruco_sizes arguments a caller passes: nothing, a scalar, a list of
\* any length up to MaxN + 1, or a list of one-element lists.
SizeArgs ==
    {NoSizes}
    \cup {[kind |-> "scalar", val |-> <<v>>] : v \in SizeSet}
    \cup {[kind |-> "list", val |-> [i \in 1..m |-> IF alt THEN (i % 2) + 1 ELSE 1]] :
            m \in 0..(MaxN + 1), alt \in BOOLEAN}
    \cup {[kind |-> "nested", val |-> <<1>>]}

\* The indices a caller's own selector may return for the markers of a.
CustomChoices(a) ==
    IF a.n >= 1 /\ ~a.rvecs.isNone THEN [1..a.n -> 0..(a.n_poses - 1)]
    ELSE {<<>>}

InitIdlePlane == ppc = "idle" /\ points = <<>> /\ fit = [status |-> "none"]

Init ==
    /\ pc = "start"
    /\ call = NoCall
    /\ arucos = ArucoListReset
    /\ err = ""
    /\ selector = NoSelector
    /\ selected = <<>>
    /\ arucos_selected = ArucoListReset
    /\ InitIdlePlane

DetectAruco ==
    /\ pc = "start"
    /\ \E n \in 0..MaxN, n_rejected \in RejectedCounts,
          K \in {"None", "K"}, D \in {"None", "D"},
          aruco_sizes \in SizeArgs, use_generic \in BOOLEAN :
        \E corners0 \in [1..n -> QuadSet], ids0 \in [1..n -> IdSet] :
          \E ind \in ArgSorts(ids0) :
            LET r == detect_aruco(corners0, ids0, n_rejected, K, D,
                                  aruco_sizes, use_generic, ind)
            IN  /\ call' = [corners |-> corners0, ids |-> ids0,
                            n_rejected |-> n_rejected, K |-> K, D |-> D,
                            aruco_sizes |-> aruco_sizes,
                            use_generic |-> use_generic]
                /\ arucos' = r.value
                /\ err' = r.err
                /\ pc' = IF r.err = "" THEN "detected" ELSE "detect_failed"
    /\ UNCHANGED <<selector, selected, arucos_selected, planeVars>>

SelectArucoPoses ==
    /\ pc = "detected"
    /\ \E name \in SelectorNames :
        \E choice \in (IF name = "custom" THEN CustomChoices(arucos) ELSE {<<>>}) :
            LET sel == [name |-> name, choice |-> choice]
                r == select_aruco_poses(arucos, sel)
            IN  /\ selector' = sel
                /\ selected' = r.selected
                /\ arucos_selected' = r.value
                /\ err' = r.err
                /\ pc' = IF r.err = "" THEN "selected" ELSE "select_failed"
    /\ UNCHANGED <<call, arucos, planeVars>>

Next == DetectAruco \/ SelectArucoPoses

Spec == Init /\ [][Next]_vars


(***************************************************************************)
(* Numbers of estimate_plane.  The computation leaves the rationals only   *)
(* through the norm of the plane normal, sqrt(a^2 + b^2 + 1), so a number  *)
(* is <<p, q, d>>, standing for (p + q * sqrt(M)) / d with integers p, q,  *)
(* d > 0 and M a square-free integer fixed by the fitted plane.  d = 0 is  *)
(* NaN, the result of 0 / 0.  Arithmetic is exact: rounding is not         *)
(* modelled.                                                               *)
(***************************************************************************)
RECURSIVE GCD(_, _)
GCD(a, b) == IF b = 0 THEN a ELSE GCD(b, a % b)

NaN == <<0, 0, 0>>

IsNaN(x) == x[3] = 0

FReduce(x) ==
    IF x[3] = 0 THEN NaN
    ELSE LET g == GCD(GCD(Abs(x[1]), Abs(x[2])), Abs(x[3]))
             s == IF x[3] < 0 THEN -1 ELSE 1
         IN  <<(s * x[1]) \div g, (s * x[2]) \div g, (s * x[3]) \div g>>

FInt(k) == <<k, 0, 1>>

FRat(n, d) == FReduce(<<n, 0, d>>)

FNeg(x) == <<-x[1], -x[2], x[3]>>

\* Sums are taken over the least common denominator, and products after
\* cancelling common factors, to keep the integers small.
FAdd(x, y) ==
    IF x[3] = 0 \/ y[3] = 0 THEN NaN
    ELSE LET g == GCD(x[3], y[3])
             mx == y[3] \div g
             my == x[3] \div g
         IN  FReduce(<<x[1] * mx + y[1] * my, x[2] * mx + y[2] * my, x[3] * mx>>)

FSub(x, y) == FAdd(x, FNeg(y))

\* With M = 1 the number is rational and is kept with q = 0.
FCanon(x, M) == IF M = 1 THEN <<x[1] + x[2], 0, x[3]>> ELSE x

FMul(x, y, M) ==
    IF x[3] = 0 \/ y[3] = 0 THEN NaN
    ELSE LET gx == GCD(GCD(Abs(x[1]), Abs(x[2])), y[3])
             gy == GCD(GCD(Abs(y[1]), Abs(y[2])), x[3])
             x1 == x[1] \div gx
             x2 == x[2] \div gx
             y1 == y[1] \div gy
             y2 == y[2] \div gy
         IN  FReduce(FCanon(<<x1 * y1 + x2 * y2 * M, x1 * y2 + x2 * y1,
                              (x[3] \div gy) * (y[3] \div gx)>>, M))

\* 1 / y = d (p - q sqrt(M)) / (p^2 - q^2 M); 1 / 0 is NaN.
FInv(y, M) ==
    LET c == FCanon(y, M)
    IN  FReduce(<<c[3] * c[1], -(c[3] * c[2]), c[1] * c[1] - c[2] * c[2] * M>>)

\* x / y; only 0 / 0 occurs with a zero divisor, and is NaN.
FDiv(x, y, M) == FMul(x, FInv(y, M), M)

\* The sign of p^2 - q^2 M for p, q > 0, without forming the squares: with
\* p = r q + t, 0 <= t < q, it is the sign of q E + t^2 for
\* E = r^2 q + 2 r t - q M, and |q E| > t^2 as soon as |E| >= q.
SignOfSquares(p, q, M) ==
    LET r == p \div q
        t == p % q
        E == r * r * q + 2 * r * t - q * M
    IN  IF r * r > M THEN 1
        ELSE IF E >= q THEN 1
        ELSE IF E <= -q THEN -1
        ELSE Sgn(q * E + t * t)

\* The sign of a number that is not NaN: that of p + q sqrt(M).
FSignPQ(p, q, M) ==
    CASE p >= 0 /\ q >= 0 -> IF p = 0 /\ q = 0 THEN 0 ELSE 1
      [] p <= 0 /\ q <= 0 -> -1
      [] p > 0 /\ q < 0   -> SignOfSquares(p, -q, M)
      [] OTHER            -> -SignOfSquares(-p, q, M)

FSign(x, M) ==
    LET g == GCD(Abs(x[1]), Abs(x[2]))
    IN  IF g = 0 THEN 0 ELSE FSignPQ(x[1] \div g, x[2] \div g, M)

FEq(x, y, M) == ~IsNaN(x) /\ ~IsNaN(y) /\ FSign(FSub(x, y), M) = 0

FAbs(x, M) == IF FSign(x, M) < 0 THEN FNeg(x) ELSE x

FVecEq(v, w, M) == \A i \in 1..3 : FEq(v[i], w[i], M)

FDot(v, w, M) ==
    FAdd(FAdd(FMul(v[1], w[1], M), FMul(v[2], w[2], M)), FMul(v[3], w[3], M))

FCross(v, w, M) ==
    <<FSub(FMul(v[2], w[3], M), FMul(v[3], w[2], M)),
      FSub(FMul(v[3], w[1], M), FMul(v[1], w[3], M)),
      FSub(FMul(v[1], w[2], M), FMul(v[2], w[1], M))>>

FMatVec(A, v, M) == [i \in 1..3 |-> FDot(A[i], v, M)]

FTranspose(A) == [i \in 1..3 |-> [j \in 1..3 |-> A[j][i]]]

\* np.linalg.norm of a vector with at most one non-zero entry; any other
\* norm is outside the number field.
FNorm(v, M) ==
    CASE FSign(v[2], M) = 0 /\ FSign(v[3], M) = 0 -> FAbs(v[1], M)
      [] FSign(v[1], M) = 0 /\ FSign(v[3], M) = 0 -> FAbs(v[2], M)
      [] FSign(v[1], M) = 0 /\ FSign(v[2], M) = 0 -> FAbs(v[3], M)
      [] OTHER -> NaN

(***************************************************************************)
(* project_to_plane                                                        *)
(***************************************************************************)
project_to_plane(p0, plane, M) ==
    LET x0 == p0[1]
        y0 == p0[2]
        z0 == p0[3]
        a == plane[1]
        b == plane[2]
        c == plane[3]
        dz == FDiv(FSub(FAdd(FAdd(FMul(a, x0, M), FMul(b, y0, M)), c), z0),
                   FAdd(FAdd(FMul(a, a, M), FMul(b, b, M)), FInt(1)), M)
    IN  <<FSub(x0, FMul(a, dz, M)), FSub(y0, FMul(b, dz, M)), FAdd(z0, dz)>>

(***************************************************************************)
(* estimate_plane                                                          *)
(***************************************************************************)
\* The k-th node (x, y) of the 3 x 3 lattice clouds are sampled over.
LatticeNode(k) == <<((k - 1) % 3) - 1, ((k - 1) \div 3) - 1>>

\* The point of the plane z = a x + b y over a lattice node.
PointOnPlane(a, b, k) ==
    <<LatticeNode(k)[1], LatticeNode(k)[2], a * LatticeNode(k)[1] + b * LatticeNode(k)[2]>>

RECURSIVE SumTo(_, _)
SumTo(f, n) == IF n = 0 THEN 0 ELSE f[n] + SumTo(f, n - 1)

\* A^T A for the rows A[i] = [x_i, y_i, 1].
NormalMatrix(pts) ==
    LET n == Len(pts)
        S(i, j) == SumTo([k \in 1..n |->
                       (IF i = 3 THEN 1 ELSE pts[k][i]) * (IF j = 3 THEN 1 ELSE pts[k][j])], n)
    IN  [i \in 1..3 |-> [j \in 1..3 |-> S(i, j)]]

\* A^T B for B[i] = z_i.
NormalRhs(pts) ==
    LET n == Len(pts)
    IN  [i \in 1..3 |->
            SumTo([k \in 1..n |-> (IF i = 3 THEN 1 ELSE pts[k][i]) * pts[k][3]], n)]

Det3(A) ==
      A[1][1] * (A[2][2] * A[3][3] - A[2][3] * A[3][2])
    - A[1][2] * (A[2][1] * A[3][3] - A[2][3] * A[3][1])
    + A[1][3] * (A[2][1] * A[3][2] - A[2][2] * A[3][1])

\* The adjugate: inv(A) = Adj3(A) / Det3(A).
Adj3(A) ==
    LET m(r1, r2, c1, c2) == A[r1][c1] * A[r2][c2] - A[r1][c2] * A[r2][c1]
    IN  << <<m(2, 3, 2, 3), -m(1, 3, 2, 3), m(1, 2, 2, 3)>>,
           <<-m(2, 3, 1, 3), m(1, 3, 1, 3), -m(1, 2, 1, 3)>>,
           <<m(2, 3, 1, 2), -m(1, 3, 1, 2), m(1, 2, 1, 2)>> >>

\* plane = inv(A^T A) A^T B, for a non-singular A^T A.
SolvePlane(pts) ==
    LET v == MatVec(Adj3(NormalMatrix(pts)), NormalRhs(pts))
        det == Det3(NormalMatrix(pts))
    IN  [i \in 1..3 |-> FRat(v[i], det)]

\* centroid = np.sum(points, axis=0) / n
Centroid(pts) ==
    LET n == Len(pts)
    IN  [i \in 1..3 |-> FRat(SumTo([k \in 1..n |-> pts[k][i]], n), n)]

\* A normal pointing to the other side of the plane.
PlaneNormalDown(a, b) == <<FNeg(a), FNeg(b), FInt(-1)>>

\* tgt = np.array([-a, -b, 1]), the direction of the plane's normal.
PlaneNormal(a, b) == <<FNeg(a), FNeg(b), FInt(1)>>

\* The norm of (-a, -b, 1) is sqrt(a^2 + b^2 + 1) = sqrt(S) / L for the
\* least L > 0 with a * L and b * L integers and S = |(-a, -b, 1) L|^2.
\* With S = k^2 M for the largest such k (M free of squares), the norm is
\* k sqrt(M) / L.
NormalScale(a, b) == (a[3] * b[3]) \div GCD(a[3], b[3])

NormalSquare(a, b) ==
    LET L == NormalScale(a, b)
        ai == (a[1] * L) \div a[3]
        bi == (b[1] * L) \div b[3]
    IN  ai * ai + bi * bi + L * L

RECURSIVE SquarePart(_, _)
SquarePart(S, k) ==
    IF k * k > S THEN 1
    ELSE LET r == SquarePart(S, k + 1)
         IN  IF r > 1 THEN r ELSE IF S % (k * k) = 0 THEN k ELSE 1

Radicand(a, b) ==
    LET k == SquarePart(NormalSquare(a, b), 1)
    IN  NormalSquare(a, b) \div (k * k)

\* np.linalg.norm(np.array([-a, -b, 1]))
NormalNorm(a, b) ==
    FReduce(<<0, SquarePart(NormalSquare(a, b), 1), NormalScale(a, b)>>)

\* The tolerance of the assertion np.linalg.norm(avr) > 0.01.
AvrTolerance == FRat(1, 100)

\* cv2.Rodrigues(u * pi) for the unit vector u = axis / |axis|, given axis
\* and |axis|^2: the half turn 2 u u^T - I.
RodriguesHalfTurn(axis, nsq, M) ==
    [i \in 1..3 |-> [j \in 1..3 |->
        FSub(FDiv(FMul(FInt(2), FMul(axis[i], axis[j], M), M), nsq, M),
             FInt(Identity3[i][j]))]]

NaNVec == <<NaN, NaN, NaN>>

NoFit(status) == [status |-> status]

(***************************************************************************)
(* Unit vectors other than the plane normal are not in the number field;   *)
(* tgt / |tgt| is kept as tgt with |tgt|^2 (tgt_nsq), and sine, cosine and *)
(* the columns of R2 and R built from them are kept multiplied by |tgt|.   *)
(* They are NaN when |tgt| = 0, as 0 / 0 is.                               *)
(*                                                                         *)
(* estimate_plane is one function; it is written as a chain of operators,  *)
(* each passing the values computed so far to the next.                    *)
(***************************************************************************)
\* Lines 68-77: sine, cosine, theta, R2, R = R1 R2 and T.  R2 is
\* Rodrigues([0, 0, theta]) with theta = atan2(sine, cosine): its columns
\* are (cos, sin, 0), (-sin, cos, 0), (0, 0, 1), all NaN for a NaN theta.
ComposeFrame(f, R1, tgt2, tgt_nsq) ==
    LET isnan == FSign(tgt_nsq, f.M) = 0
        src == <<FInt(1), FInt(0), FInt(0)>>
        sine == IF isnan THEN NaN ELSE FNorm(FCross(src, tgt2, f.M), f.M)
        cosine == IF isnan THEN NaN ELSE FDot(src, tgt2, f.M)
        R2 == [x |-> IF isnan THEN NaNVec ELSE <<cosine, sine, FInt(0)>>,
               y |-> IF isnan THEN NaNVec ELSE <<FNeg(sine), cosine, FInt(0)>>,
               z |-> IF isnan THEN NaNVec ELSE <<FInt(0), FInt(0), FInt(1)>>]
    IN  [status |-> "ok",
         plane |-> f.plane, M |-> f.M, normal |-> f.normal, avr_nsq |-> f.avr_nsq,
         R1 |-> R1, tgt_world |-> f.tgt_world, tgt |-> tgt2, tgt_nsq |-> tgt_nsq,
         R2 |-> R2,
         T |-> [x |-> IF isnan THEN NaNVec ELSE FMatVec(R1, R2.x, f.M),
                y |-> IF isnan THEN NaNVec ELSE FMatVec(R1, R2.y, f.M),
                z |-> IF isnan THEN NaNVec ELSE FMatVec(R1, R2.z, f.M),
                origin |-> f.origin]]

\* Line 67: tgt /= np.linalg.norm(tgt), kept as tgt and its squared norm.
NormalizeX(f, R1, tgt2) == ComposeFrame(f, R1, tgt2, FDot(tgt2, tgt2, f.M))

\* Lines 64-66: tgt = inv(R1) (project_to_plane(points[0]) - origin); the
\* inverse of the rotation R1 is its transpose.
AlignX(pts, f, R1) ==
    LET proj == project_to_plane([i \in 1..3 |-> FInt(pts[1][i])], f.plane, f.M)
        tgt_world == [i \in 1..3 |-> FSub(proj[i], f.origin[i])]
    IN  NormalizeX([f EXCEPT !.tgt_world = tgt_world], R1,
                   FMatVec(FTranspose(R1), tgt_world, f.M))

\* Lines 59-62: the assertion np.linalg.norm(avr) > 0.01, compared on the
\* squares, and R1.
HalfTurnOntoNormal(pts, f, avr, avr_nsq) ==
    IF FSign(FSub(avr_nsq, FMul(AvrTolerance, AvrTolerance, f.M)), f.M) <= 0
    THEN NoFit("AssertionError")
    ELSE AlignX(pts, [f EXCEPT !.avr_nsq = avr_nsq], RodriguesHalfTurn(avr, avr_nsq, f.M))

\* Line 58: avr = src + tgt
AlignNormal(pts, f) ==
    LET avr == [i \in 1..3 |-> FAdd(IF i = 3 THEN FInt(1) ELSE FInt(0), f.normal[i])]
    IN  HalfTurnOntoNormal(pts, f, avr, FDot(avr, avr, f.M))

\* Lines 49-57: the origin and the unit normal tgt / np.linalg.norm(tgt).
FrameOfPlane(pts, plane0, M) ==
    LET tgt0 == PlaneNormal(plane0[1], plane0[2])
        norm0 == NormalNorm(plane0[1], plane0[2])
    IN  AlignNormal(pts,
            [plane |-> plane0, M |-> M,
             origin |-> project_to_plane(Centroid(pts), plane0, M),
             normal |-> [i \in 1..3 |-> FDiv(tgt0[i], norm0, M)],
             avr_nsq |-> NaN, tgt_world |-> NaNVec])

FitPlane(pts, plane0) == FrameOfPlane(pts, plane0, Radicand(plane0[1], plane0[2]))

\* np.linalg.inv raises LinAlgError for a singular matrix.
estimate_plane(pts) ==
    IF Det3(NormalMatrix(pts)) = 0 THEN NoFit("LinAlgError")
    ELSE FitPlane(pts, SolvePlane(pts))

(***************************************************************************)
(* The plane pipeline: a cloud is loaded, then the frame is estimated.     *)
(***************************************************************************)
InitIdleAruco ==
    /\ pc = "idle"
    /\ call = NoCall
    /\ arucos = ArucoListReset
    /\ err = ""
    /\ selector = NoSelector
    /\ selected = <<>>
    /\ arucos_selected = ArucoListReset

InitPlane ==
    /\ InitIdleAruco
    /\ ppc = "start"
    /\ points = <<>>
    /\ fit = NoFit("none")

\* The clouds np.load may return: a first point and NPts - 1 further,
\* distinct points, sampled on a plane with integer slopes (the numbers of
\* the fit stay small on such clouds).
RestOfCloud ==
    {s \in [1..(NPts - 1) -> 1..9] : \A i \in 1..(NPts - 2) : s[i] < s[i + 1]}

LoadPoints ==
    /\ ppc = "start"
    /\ \E a \in (-MaxSlope)..MaxSlope, b \in (-MaxSlope)..MaxSlope,
          first \in 1..9, rest \in RestOfCloud :
        points' = <<PointOnPlane(a, b, first)>>
                  \o [i \in 1..(NPts - 1) |-> PointOnPlane(a, b, rest[i])]
    /\ ppc' = "loaded"
    /\ UNCHANGED <<fit, arucoVars>>

EstimatePlane ==
    /\ ppc = "loaded"
    /\ fit' = estimate_plane(points)
    /\ ppc' = "done"
    /\ UNCHANGED <<points, arucoVars>>

NextPlane == LoadPoints \/ EstimatePlane

SpecPlane == InitPlane /\ [][NextPlane]_vars

\* Consistency of the number model: R1 maps Z onto the plane normal, and
\* tgt, expressed in R1's frame, has no Z component.
PlaneModelSane ==
    (ppc = "done" /\ fit.status = "ok") =>
        /\ FVecEq(FMatVec(fit.R1, <<FInt(0), FInt(0), FInt(1)>>, fit.M), fit.normal, fit.M)
        /\ FSign(fit.tgt[3], fit.M) = 0
        /\ FEq(FDot(fit.normal, fit.normal, fit.M), FInt(1), fit.M)
        /\ FEq(fit.tgt_nsq, FDot(fit.tgt_world, fit.tgt_world, fit.M), fit.M)

(***************************************************************************)
(* Properties of the marker pipeline (specification Spec).                 *)
(***************************************************************************)
DetectReturned == pc \in {"detected", "selected", "select_failed"}

SelectCalled == pc \in {"selected", "select_failed"}

\* The pose count the request mode asks for.
ModePoseCount(c) ==
    IF c.K = "None" \/ c.D = "None" \/ c.aruco_sizes.kind = "None" THEN 0
    ELSE IF c.use_generic THEN 2 ELSE 1

\* C1: select_aruco_poses, applied to any result of detect_aruco, returns a
\* result with n_poses = 1 and the n and ids of its input.
C1_SelectionKeepsCountAndIds ==
    SelectCalled =>
        /\ pc = "selected"
        /\ arucos_selected.n_poses = 1
        /\ arucos_selected.n = arucos.n
        /\ arucos_selected.ids = arucos.ids

\* C2: for an input with n = 0 the pose arrays of the selected result have
\* the shapes of the non-empty case with n = 0: rvecs and tvecs (0, 1, 3),
\* reprojection_errors (0, 1).
C2_EmptySelectionShapes ==
    (pc = "selected" /\ arucos.n = 0) =>
        /\ arucos_selected.rvecs.shape = <<0, 1, 3>>
        /\ arucos_selected.tvecs.shape = <<0, 1, 3>>
        /\ arucos_selected.reprojection_errors.shape = <<0, 1>>

\* C3: n_poses of a detection result is fixed by the request mode alone,
\* for every number of detected markers: 0 without K, D or sizes, else 1 in
\* single-solution mode and 2 in generic mode.
C3_PoseCountByMode ==
    DetectReturned => arucos.n_poses = ModePoseCount(call)

\* C4: when K and D are supplied, a list of sizes whose length differs from
\* the number n of detected markers makes detect_aruco fail with the
\* size-count error, for every n >= 0; a scalar never fails and yields
\* aruco_sizes of length n, every entry the scalar.
C4_SizeCountValidated ==
    (/\ pc \in {"detect_failed", "detected", "selected", "select_failed"}
     /\ call.K # "None" /\ call.D # "None") =>
        /\ (call.aruco_sizes.kind = "list"
                /\ Len(call.aruco_sizes.val) # Len(call.corners)) =>
              (pc = "detect_failed" /\ err = "RuntimeError: size count")
        /\ call.aruco_sizes.kind = "scalar" =>
              /\ DetectReturned
              /\ ~arucos.aruco_sizes.isNone
              /\ arucos.aruco_sizes.shape = <<arucos.n>>
              /\ Len(arucos.aruco_sizes.data) = arucos.n
              /\ \A i \in 1..arucos.n :
                    arucos.aruco_sizes.data[i] = call.aruco_sizes.val[1]

\* C5: in every detection result ids is ascending, the (id, corner quad)
\* pairs are those of the detector, permuted together, and the size and the
\* pose candidates at index i are those given for, and solved from, the
\* corner quad at index i of the sorted result.
C5_SortedAndAligned ==
    DetectReturned =>
        LET n == arucos.n
            ids == arucos.ids.data
            corners == arucos.corners.data
        IN  /\ n = Len(call.ids)
            /\ Len(ids) = n /\ Len(corners) = n
            /\ \A i, j \in 1..n : i < j => ids[i] <= ids[j]
            /\ \E p \in Permutations1(n) : \A i \in 1..n :
                  ids[i] = call.ids[p[i]] /\ corners[i] = call.corners[p[i]]
            /\ (n >= 1 /\ ~arucos.rvecs.isNone) =>
                  \A i \in 1..n :
                    /\ arucos.aruco_sizes.data[i] =
                          (IF call.aruco_sizes.kind = "scalar"
                           THEN call.aruco_sizes.val[1] ELSE call.aruco_sizes.val[i])
                    /\ Len(arucos.rvecs.data[i]) = arucos.n_poses
                    /\ \A j \in 1..arucos.n_poses :
                        /\ arucos.rvecs.data[i][j] = Candidates(corners[i])[j].rvec
                        /\ arucos.tvecs.data[i][j] =
                              <<corners[i], j - 1, arucos.aruco_sizes.data[i]>>
                        /\ arucos.reprojection_errors.data[i][j] =
                              (IF call.use_generic THEN Candidates(corners[i])[j].e
                               ELSE -1)

C5_Witness ==
    /\ pc = "detected"
    /\ call.ids = <<2, 1>>
    /\ call.corners = <<1, 2>>
    /\ call.use_generic
    /\ arucos.ids.data = <<1, 2>>
    /\ arucos.corners.data = <<2, 1>>
    /\ ~arucos.rvecs.isNone
    /\ arucos.aruco_sizes.data = <<2, 1>>

\* C6: for n >= 1, rvecs, tvecs and reprojection_errors of the selected
\* result hold, for each marker i, the input's candidate at the index the
\* selector returned for marker i.
C6_SlicedAtSelectedIndex ==
    (pc = "selected" /\ arucos.n >= 1) =>
        /\ Len(selected) = arucos.n
        /\ selector.name = "custom" => selected = selector.choice
        /\ arucos_selected.rvecs.shape = <<arucos.n, 1, 3>>
        /\ arucos_selected.tvecs.shape = <<arucos.n, 1, 3>>
        /\ arucos_selected.reprojection_errors.shape = <<arucos.n, 1>>
        /\ \A i \in 1..arucos.n :
            /\ selected[i] \in 0..(arucos.n_poses - 1)
            /\ arucos_selected.rvecs.data[i] =
                  <<arucos.rvecs.data[i][selected[i] + 1]>>
            /\ arucos_selected.tvecs.data[i] =
                  <<arucos.tvecs.data[i][selected[i] + 1]>>
            /\ arucos_selected.reprojection_errors.data[i] =
                  <<arucos.reprojection_errors.data[i][selected[i] + 1]>>

C6_Witness ==
    /\ pc = "selected"
    /\ arucos.n = 2
    /\ arucos.n_poses = 2
    /\ selected = <<1, 0>>
    /\ arucos.corners.data = <<1, 2>>
    /\ arucos_selected.tvecs.data[1][1][2] = 1
    /\ arucos_selected.tvecs.data[2][1][2] = 0

\* C7: Z_axis_up returns the first index whose rotation matrix has the
\* largest minus row-1, column-2 entry (numpy indices); of two candidates
\* with the marker Z axis toward -Y and toward +Y it returns the -Y one.
C7_ZAxisUpFirstMaximum ==
    (pc = "selected" /\ selector.name = "Z_axis_up" /\ arucos.n >= 1) =>
        \A i \in 1..arucos.n :
            LET rv == arucos.rvecs.data[i]
                s == selected[i] + 1
                score(j) == -(Rodrigues(rv[j])[2][3])
                zaxis(j) == MatVec(Rodrigues(rv[j]), <<0, 0, 1>>)
            IN  /\ s \in DOMAIN rv
                /\ \A j \in DOMAIN rv : score(j) <= score(s)
                /\ \A j \in DOMAIN rv : j < s => score(j) < score(s)
                /\ (Len(rv) = 2 /\ {zaxis(1), zaxis(2)} = {<<0, -1, 0>>, <<0, 1, 0>>})
                      => zaxis(s) = <<0, -1, 0>>

C7_Witness ==
    /\ pc = "selected"
    /\ selector.name = "Z_axis_up"
    /\ arucos.n = 2
    /\ arucos.rvecs.data[1] = <<RotDown, RotUp>>
    /\ selected[1] = 1
    /\ arucos.rvecs.data[2] = <<RotNone, RotSide>>
    /\ selected[2] = 0

(***************************************************************************)
(* Properties of the plane pipeline (specification SpecPlane).             *)
(***************************************************************************)
FitDefined(v, M) == \A i \in 1..3 : ~IsNaN(v[i])

\* C8: estimate_plane either fails with an error or returns a transform
\* all of whose entries are numbers, never NaN.
C8_ErrorOrDefinedTransform ==
    ppc = "done" =>
        \/ fit.status \in {"LinAlgError", "AssertionError"}
        \/ /\ fit.status = "ok"
           /\ FitDefined(fit.T.x, fit.M) /\ FitDefined(fit.T.y, fit.M)
           /\ FitDefined(fit.T.z, fit.M) /\ FitDefined(fit.T.origin, fit.M)

\* C9: when estimate_plane succeeds, R2 maps canonical X onto the direction
\* of tgt (the first point's projection relative to the origin, in R1's
\* frame), so the X axis of R = R1 R2 points from the origin toward the
\* projection of the first point.  (R2's and R's X columns and tgt are all
\* kept multiplied by |tgt|.)
C9_XAxisTowardFirstPoint ==
    (ppc = "done" /\ fit.status = "ok" /\ FitDefined(fit.T.x, fit.M)) =>
        /\ FVecEq(fit.R2.x, fit.tgt, fit.M)
        /\ FVecEq(fit.T.x, fit.tgt_world, fit.M)

\* C10: for every fitted plane the unit normal has a positive Z component,
\* |src + tgt| exceeds the tolerance and the assertion never fails.
C10_AntiparallelGuardHolds ==
    (ppc = "done" /\ fit.status # "LinAlgError") =>
        /\ fit.status = "ok"
        /\ FSign(fit.normal[3], fit.M) > 0
        /\ FSign(FSub(fit.avr_nsq, FMul(AvrTolerance, AvrTolerance, fit.M)), fit.M) > 0

C10_Witness ==
    /\ ppc = "done"
    /\ fit.status = "ok"
    /\ fit.M # 1
    /\ FSign(fit.plane[1], fit.M) > 0
    /\ FSign(fit.plane[2], fit.M) < 0

=============================================================================
